---- MODULE Spec2Model ----
(***************************************************************************)
(* BM11Model (src/BM11Model/main.cpp): the lazily evaluated tetrahedron    *)
(* pair model, its evaluate pipeline and the two drivers of main.          *)
(*                                                                         *)
(* Numbers are binary floating point values m * 2^e with a 24 bit          *)
(* significand (the C type float), rounded to nearest-even after every     *)
(* operation.  TLC integers are 32 bits wide, so products, quotients and   *)
(* square roots are computed on 12 bit limbs.  The exponent is unbounded   *)
(* (no underflow, no overflow to infinity by magnitude) and zero carries   *)
(* no sign.  Where the C code promotes to double (sin, asin, M_PI, the     *)
(* literals 1.6 and 0.00256) the model stays in single precision.          *)
(***************************************************************************)
EXTENDS Integers, Sequences, FiniteSets, TLC

VARIABLES
    _inputParams,   \* BM11Model::_inputParams
    _outputParams,  \* BM11Model::_outputParams
    _is_dirty,      \* BM11Model::_is_dirty
    lastCall,       \* history: the client's latest call and what it got back
    changed,        \* history: an input assignment since the previous getOutputParameters
    evals,          \* history: runs of evaluate since the latest input assignment
    gets,           \* history: getOutputParameters calls since the latest input assignment
    failed,         \* history: evaluate reported an invalid tetrahedron for the inputs in place
    memo,           \* history: one earlier evaluation, <<inputs, output>>
    reEval,         \* history: the memo's inputs were evaluated again over a different structure
    mainpc,         \* main: the statement it is at
    output_params,  \* main: the local of its first block, <<>> until assigned
    mph,            \* printOutputParameters: the loop variable of a wind table
    stdout,         \* the lines printed so far (wind table rows, sweep header and rows)
    sweepEnabled,   \* main: the condition of its second block
    input_params,   \* main: the local of its second block
    printParams,    \* printOutputParameters: its parameter params, <<>> until it is called
    pc,             \* concurrent callers: each caller's place in getOutputParameters
    received,       \* concurrent callers: what each call returned, <<>> until it has
    calls           \* concurrent callers: calls each caller has completed

object  == <<_inputParams, _outputParams, _is_dirty>>
history == <<lastCall, changed, evals, gets, failed, memo, reEval>>
program == <<mainpc, output_params, mph, stdout, sweepEnabled, input_params, printParams>>
callers == <<pc, received, calls>>
vars    == <<object, history, program, callers>>

(***************************************************************************)
(* float                                                                   *)
(***************************************************************************)
\* [x \in T |-> e][a] is e with x standing for the value of a: operators
\* written this way take their arguments by value, as the C functions do.
Zero == [m |-> 0, e |-> 0]
NaN  == [m |-> 0, e |-> 1000]
PInf == [m |-> 1, e |-> 1000]
NInf == [m |-> -1, e |-> 1000]

Float == [m : Int, e : Int]

IsNaN(x) == x = NaN
IsInf(x) == x = PInf \/ x = NInf
Finite(x) == ~IsNaN(x) /\ ~IsInf(x)

Abs(n) == IF n < 0 THEN -n ELSE n
Sgn(n) == IF n < 0 THEN -1 ELSE 1

\* the number of significant bits of a, 0 <= a < 2^31
BitLen(a_) ==
    [a \in Int |->
        Cardinality({k \in 0..30 : 2^k <= a})
    ][a_]

\* sgn * a * 2^e rounded to 24 significant bits, ties to even; the lowest bit
\* of a may be a sticky bit.  0 <= a < 2^31.  RoundBits drops the k lowest
\* bits of a and renormalises a significand that rounded up to 2^24.
RoundBits(sgn, a, e, k) ==
    [q1 \in Int |->
        IF q1 = 16777216 THEN [m |-> sgn * 8388608, e |-> e + k + 1]
        ELSE [m |-> sgn * q1, e |-> e + k]
    ][IF a % 2^k > 2^(k - 1) \/ (a % 2^k = 2^(k - 1) /\ (a \div 2^k) % 2 = 1)
      THEN (a \div 2^k) + 1 ELSE a \div 2^k]

RoundPack(sgn_, a_, e_) ==
    [sgn \in Int, a \in Int, e \in Int |->
        IF a = 0 THEN Zero
        ELSE [L \in Int |->
                 IF L <= 24 THEN [m |-> sgn * a * 2^(24 - L), e |-> e - (24 - L)]
                 ELSE RoundBits(sgn, a, e, L - 24)
             ][BitLen(a)]
    ][sgn_, a_, e_]

FromInt(n_) ==
    [n \in Int |->
        RoundPack(Sgn(n), Abs(n), 0)
    ][n_]

FNeg(x_) ==
    [x \in Float |->
        IF IsNaN(x) THEN NaN ELSE [m |-> -x.m, e |-> x.e]
    ][x_]

fabsf(x_) ==
    [x \in Float |->
        IF IsNaN(x) THEN NaN ELSE [m |-> Abs(x.m), e |-> x.e]
    ][x_]

\* the smaller operand's significand B8 shifted right by d, its lost bits
\* gathered in a sticky lowest bit
Aligned(B8, d_) ==
    [d \in Int |->
        IF d > 27 THEN 1
        ELSE IF B8 % 2^d # 0 /\ (B8 \div 2^d) % 2 = 0 THEN (B8 \div 2^d) + 1
        ELSE B8 \div 2^d
    ][d_]

\* hi is the operand of the larger exponent
AddAligned(hi_, lo_) ==
    [hi \in Float, lo \in Float |->
        [S \in Int |->
            RoundPack(Sgn(S), Abs(S), hi.e - 3)
        ][Sgn(hi.m) * Abs(hi.m) * 8 + Sgn(lo.m) * Aligned(Abs(lo.m) * 8, hi.e - lo.e)]
    ][hi_, lo_]

FAdd(x_, y_) ==
    [x \in Float, y \in Float |->
        IF Finite(x) /\ Finite(y) /\ x.m # 0 /\ y.m # 0
        THEN (IF x.e >= y.e THEN AddAligned(x, y) ELSE AddAligned(y, x))
        ELSE IF IsNaN(x) \/ IsNaN(y) THEN NaN
        ELSE IF IsInf(x) THEN (IF IsInf(y) /\ y # x THEN NaN ELSE x)
        ELSE IF IsInf(y) THEN y
        ELSE IF x.m = 0 THEN y
        ELSE x
    ][x_, y_]

FSub(x, y) == FAdd(x, FNeg(y))

\* sgn * a * b * 2^e: the 48 bit product hh * 2^24 + mid * 2^12 + ll of two
\* significands, from the products of their 12 bit halves
MulLimbs(sgn, a_, b_, e) ==
    [a \in Int, b \in Int |->
        LET hh  == (a \div 4096) * (b \div 4096)
            mid == (a \div 4096) * (b % 4096) + (a % 4096) * (b \div 4096)
            ll  == (a % 4096) * (b % 4096)
            lo  == (mid % 4096) * 4096 + ll
            W0  == lo % 16777216
            W1  == hh + (mid \div 4096) + (lo \div 16777216)
        IN  RoundPack(sgn, (W1 * 8 + (W0 \div 2097152)) * 2
                           + (IF W0 % 2097152 # 0 THEN 1 ELSE 0), e)
    ][a_, b_]

FMul(x_, y_) ==
    [x \in Float, y \in Float |->
        IF Finite(x) /\ Finite(y) /\ x.m # 0 /\ y.m # 0
        THEN MulLimbs(Sgn(x.m) * Sgn(y.m), Abs(x.m), Abs(y.m), x.e + y.e + 20)
        ELSE IF IsNaN(x) \/ IsNaN(y) THEN NaN
        ELSE IF IsInf(x) \/ IsInf(y)
             THEN (IF x.m = 0 \/ y.m = 0 THEN NaN
                   ELSE IF Sgn(x.m) = Sgn(y.m) THEN PInf ELSE NInf)
        ELSE Zero
    ][x_, y_]

\* one more base 128 digit of the quotient d.Q, from the remainder d.r
DivStep(d_, b) ==
    [d \in [Q : Int, r : Int] |->
        [Q |-> d.Q * 128 + ((d.r * 128) \div b), r |-> (d.r * 128) % b]
    ][d_]

\* four more digits
DivDigits(r, b, Q) == DivStep(DivStep(DivStep(DivStep([Q |-> Q, r |-> r], b), b), b), b)

FDiv(x_, y_) ==
    [x \in Float, y \in Float |->
        IF Finite(x) /\ Finite(y) /\ x.m # 0 /\ y.m # 0
        THEN [d \in [Q : Int, r : Int] |->
                 RoundPack(Sgn(x.m) * Sgn(y.m), d.Q * 2 + (IF d.r # 0 THEN 1 ELSE 0),
                           x.e - y.e - 29)
             ][DivDigits(Abs(x.m) % Abs(y.m), Abs(y.m), Abs(x.m) \div Abs(y.m))]
        ELSE IF IsNaN(x) \/ IsNaN(y) THEN NaN
        ELSE IF IsInf(x)
             THEN (IF IsInf(y) THEN NaN
                   ELSE IF Sgn(x.m) = Sgn(y.m) THEN PInf ELSE NInf)
        ELSE IF IsInf(y) THEN Zero
        ELSE IF y.m = 0
             THEN (IF x.m = 0 THEN NaN ELSE IF x.m > 0 THEN PInf ELSE NInf)
        ELSE Zero
    ][x_, y_]

\* The largest r with r * r <= a2 * 2^26, for 2^23 <= a2 < 2^25, and whether
\* the square is short of it.  SqrtWhole is the root r1 of a2, found in two
\* halves of its digits; SqrtLow the 13 digits r0 after it, at most two below
\* the quotient of the remainder rem1 by 2 * r1, with
\* (r1 * 2^13 + r0)^2 <= a2 * 2^26 written as
\* 2 * r1 * r0 + ceiling(r0^2 / 2^13) <= rem1 * 2^13 to stay in 32 bits.
SqrtWhole(a2) ==
    [h \in Int |->
        64 * h + Cardinality({l \in 1..63 : (64 * h + l) * (64 * h + l) <= a2})
    ][Cardinality({r \in 1..90 : r * r <= a2 \div 4096})]

SqrtLow(r1, rem1) ==
    [q \in Int |->
        LET Fits(r0) == 2 * r1 * r0 + ((r0 * r0 + 8191) \div 8192) <= rem1 * 8192
        IN  IF q < 2 THEN Cardinality({r0 \in 1..q : Fits(r0)})
            ELSE (q - 2) + Cardinality({r0 \in (q - 1)..q : Fits(r0)})
    ][IF (rem1 * 8192) \div (2 * r1) > 8191 THEN 8191 ELSE (rem1 * 8192) \div (2 * r1)]

SqrtIter(a2_) ==
    [a2 \in Int |->
        [r1 \in Int |->
            [r0 \in Int |->
                [root |-> r1 * 8192 + r0,
                 rem  |-> IF /\ (r0 * r0) % 8192 = 0
                             /\ 2 * r1 * r0 + ((r0 * r0) \div 8192) = (a2 - r1 * r1) * 8192
                          THEN 0 ELSE 1]
            ][SqrtLow(r1, a2 - r1 * r1)]
        ][SqrtWhole(a2)]
    ][a2_]

sqrtf(x_) ==
    [x \in Float |->
        IF IsNaN(x) \/ x = NInf THEN NaN
        ELSE IF x = PInf THEN PInf
        ELSE IF x.m < 0 THEN NaN
        ELSE IF x.m = 0 THEN Zero
        ELSE [s \in [root : Int, rem : Int] |->
                 RoundPack(1, s.root * 2 + s.rem, ((x.e - (x.e % 2)) \div 2) - 14)
             ][SqrtIter(IF x.e % 2 = 1 THEN x.m * 2 ELSE x.m)]
    ][x_]

\* x > y; false when either is NaN
Positive(d_) ==
    [d \in Float |->
        d.m > 0 /\ ~IsNaN(d)
    ][d_]
FGt(x, y) == Positive(FSub(x, y))

\* x <= y and x >= y; false when either is NaN
FLe(x_, y_) ==
    [x \in Float, y \in Float |->
        ~IsNaN(x) /\ ~IsNaN(y) /\ ~Positive(FSub(x, y))
    ][x_, y_]
FGe(x, y) == FLe(y, x)

FRat(n, d) == FDiv(FromInt(n), FromInt(d))

One  == FromInt(1)
Two  == FromInt(2)
Half == FRat(1, 2)


(***************************************************************************)
(* libm and GLKit                                                          *)
(***************************************************************************)
PI     == [m |-> 13176795, e |-> -22]
HalfPI == FMul(PI, Half)
Sqrt3  == sqrtf(FromInt(3))

\* x * (1 - x^2/6 * (1 - x^2/20 * (1 - ... ))) for 0 <= x <= pi/2, seven
\* factors from the innermost outwards
SinHorner(x2) ==
    [a1 \in Float |-> FSub(One, FDiv(FMul(x2, a1), FromInt(6)))][
    [a2 \in Float |-> FSub(One, FDiv(FMul(x2, a2), FromInt(20)))][
    [a3 \in Float |-> FSub(One, FDiv(FMul(x2, a3), FromInt(42)))][
    [a4 \in Float |-> FSub(One, FDiv(FMul(x2, a4), FromInt(72)))][
    [a5 \in Float |-> FSub(One, FDiv(FMul(x2, a5), FromInt(110)))][
    [a6 \in Float |-> FSub(One, FDiv(FMul(x2, a6), FromInt(156)))][
    [a7 \in Float |-> FSub(One, FDiv(FMul(x2, a7), FromInt(210)))][One]]]]]]]

SinSeries(x_) ==
    [x \in Float, x2 \in Float |-> FMul(x, SinHorner(x2))][x_, FMul(x_, x_)]

RECURSIVE sin(_)
sin(x_) ==
    [x \in Float |->
        IF ~Finite(x) THEN NaN
        ELSE IF x.m < 0 THEN FNeg(sin(FNeg(x)))
        ELSE IF FGt(x, PI) THEN FNeg(sin(FSub(x, PI)))
        ELSE IF FGt(x, HalfPI) THEN SinSeries(FSub(PI, x))
        ELSE SinSeries(x)
    ][x_]

\* t * (1 - t^2/3 + t^4/5 - ...) for |t| <= tan(pi/12), nine terms from the
\* last one inwards
AtanHorner(t2) ==
    [a1 \in Float |-> FSub(One, FMul(t2, a1))][
    [a2 \in Float |-> FSub(FRat(1, 3), FMul(t2, a2))][
    [a3 \in Float |-> FSub(FRat(1, 5), FMul(t2, a3))][
    [a4 \in Float |-> FSub(FRat(1, 7), FMul(t2, a4))][
    [a5 \in Float |-> FSub(FRat(1, 9), FMul(t2, a5))][
    [a6 \in Float |-> FSub(FRat(1, 11), FMul(t2, a6))][
    [a7 \in Float |-> FSub(FRat(1, 13), FMul(t2, a7))][
    [a8 \in Float |-> FSub(FRat(1, 15), FMul(t2, a8))][
    [a9 \in Float |-> FSub(FRat(1, 17), FMul(t2, a9))][Zero]]]]]]]]]

AtanSeries(t_) ==
    [t \in Float, t2 \in Float |-> FMul(t, AtanHorner(t2))][t_, FMul(t_, t_)]

\* atan of 0 <= v <= 1: above tan(pi/12) it is pi/6 + atan((sqrt(3) v - 1) / (sqrt(3) + v))
AtanUnit(v_) ==
    [v \in Float |->
        IF FGt(v, FRat(2679, 10000))
        THEN FAdd(FDiv(PI, FromInt(6)),
                  AtanSeries(FDiv(FSub(FMul(Sqrt3, v), One), FAdd(Sqrt3, v))))
        ELSE AtanSeries(v)
    ][v_]

\* above 1 it is pi/2 - atan(1/t)
RECURSIVE atanf(_)
atanf(t_) ==
    [t \in Float |->
        IF ~Finite(t)
        THEN (IF IsNaN(t) THEN NaN ELSE IF t = PInf THEN HalfPI ELSE FNeg(HalfPI))
        ELSE IF t.m < 0 THEN FNeg(atanf(FNeg(t)))
        ELSE IF FGt(t, One) THEN FSub(HalfPI, AtanUnit(FDiv(One, t)))
        ELSE AtanUnit(t)
    ][t_]

acosf(x_) ==
    [x \in Float |->
        IF IsNaN(x) \/ FGt(fabsf(x), One) THEN NaN
        ELSE IF x = FNeg(One) THEN PI
        ELSE FMul(Two, atanf(sqrtf(FDiv(FSub(One, x), FAdd(One, x)))))
    ][x_]

asin(x_) ==
    [x \in Float |->
        IF IsNaN(x) \/ FGt(fabsf(x), One) THEN NaN
        ELSE FMul(Two, atanf(FDiv(x, FAdd(One, sqrtf(FSub(One, FMul(x, x)))))))
    ][x_]

GLKMathDegreesToRadians(d) == FMul(d, FDiv(PI, FromInt(180)))

GLKVector2 == [x : Float, y : Float]
GLKVector3 == [x : Float, y : Float, z : Float]

GLKVector2Make(x, y) == [x |-> x, y |-> y]
GLKVector3Make(x, y, z) == [x |-> x, y |-> y, z |-> z]
GLKVector3Multiply(a_, b_) ==
    [a \in GLKVector3, b \in GLKVector3 |->
        GLKVector3Make(FMul(a.x, b.x), FMul(a.y, b.y), FMul(a.z, b.z))
    ][a_, b_]
GLKVector3Subtract(a_, b_) ==
    [a \in GLKVector3, b \in GLKVector3 |->
        GLKVector3Make(FSub(a.x, b.x), FSub(a.y, b.y), FSub(a.z, b.z))
    ][a_, b_]
GLKVector3CrossProduct(a_, b_) ==
    [a \in GLKVector3, b \in GLKVector3 |->
        GLKVector3Make(FSub(FMul(a.y, b.z), FMul(a.z, b.y)),
                       FSub(FMul(a.z, b.x), FMul(a.x, b.z)),
                       FSub(FMul(a.x, b.y), FMul(a.y, b.x)))
    ][a_, b_]
GLKVector3DotProduct(a_, b_) ==
    [a \in GLKVector3, b \in GLKVector3 |->
        FAdd(FAdd(FMul(a.x, b.x), FMul(a.y, b.y)), FMul(a.z, b.z))
    ][a_, b_]
GLKVector3Length(a_) ==
    [a \in GLKVector3 |->
        sqrtf(GLKVector3DotProduct(a, a))
    ][a_]
GLKVector3MultiplyScalar(a_, scale_) ==
    [a \in GLKVector3, scale \in Float |->
        GLKVector3Make(FMul(a.x, scale), FMul(a.y, scale), FMul(a.z, scale))
    ][a_, scale_]
GLKVector3Normalize(a_) ==
    [a \in GLKVector3 |->
        GLKVector3MultiplyScalar(a, FDiv(One, GLKVector3Length(a)))
    ][a_]

sq(x_) ==
    [x \in Float |->
        FMul(x, x)
    ][x_]

\* ft/s plus one
MPH_To_FTSec_Affine(speed) == FAdd(FMul(speed, FRat(146667, 100000)), One)

MPH_To_FTSec(speed) == FMul(speed, FRat(146667, 100000))

(***************************************************************************)
(* printf("%.<d>f"): the decimal text of a float, as its sign, its whole   *)
(* part and its d fraction digits (an integer below 10^d), rounded to      *)
(* nearest with ties to even on the exact binary value.                    *)
(***************************************************************************)
Cmp(a, b) == IF a > b THEN 1 ELSE IF a = b THEN 0 ELSE -1

\* (hi * 2^12 + lo) / 2^j: the quotient, and the remainder against one half
FracQuotient(hi_, lo_, j_) ==
    [hi \in Int, lo \in Int, j \in Int |->
        IF j <= 0 THEN [q |-> (hi * 4096 + lo) * 2^(-j), cmp |-> -1]
        ELSE IF j <= 12 THEN [q   |-> hi * 2^(12 - j) + (lo \div 2^j),
                              cmp |-> Cmp(lo % 2^j, 2^(j - 1))]
        ELSE IF j <= 39 THEN [q   |-> hi \div 2^(j - 12),
                              cmp |-> IF hi % 2^(j - 12) = 2^(j - 13)
                                      THEN (IF lo > 0 THEN 1 ELSE 0)
                                      ELSE Cmp(hi % 2^(j - 12), 2^(j - 13))]
        ELSE [q |-> 0, cmp |-> -1]
    ][hi_, lo_, j_]

\* r / 2^k (r < 2^k, r < 2^24) in units of 10^-d: r * 5^d / 2^(k - d)
FracDigits(r_, k, d_) ==
    [r \in Int, d \in Int |->
        FracQuotient((r \div 4096) * 5^d + (((r % 4096) * 5^d) \div 4096),
                     ((r % 4096) * 5^d) % 4096, k - d)
    ][r_, d_]

Rounded(neg_, whole_, f_, d_) ==
    [neg \in BOOLEAN, whole \in Int, f \in [q : Int, cmp : Int], d \in Int |->
        IF f.cmp > 0 \/ (f.cmp = 0 /\ (IF d = 0 THEN whole ELSE f.q) % 2 = 1)
        THEN (IF f.q + 1 = 10^d THEN [neg |-> neg, whole |-> whole + 1, frac |-> 0]
                                ELSE [neg |-> neg, whole |-> whole, frac |-> f.q + 1])
        ELSE [neg |-> neg, whole |-> whole, frac |-> f.q]
    ][neg_, whole_, f_, d_]

printf_f(x_, d_) ==
    [x \in Float, d \in Int |->
        IF IsNaN(x) THEN [text |-> "nan"]
        ELSE IF IsInf(x) THEN [text |-> IF x = NInf THEN "-inf" ELSE "inf"]
        ELSE IF x.e >= 0 THEN [neg |-> x.m < 0, whole |-> Abs(x.m) * 2^x.e, frac |-> 0]
        ELSE IF -x.e >= 24 THEN Rounded(x.m < 0, 0, FracDigits(Abs(x.m), -x.e, d), d)
        ELSE Rounded(x.m < 0, Abs(x.m) \div 2^(-x.e),
                     FracDigits(Abs(x.m) % 2^(-x.e), -x.e, d), d)
    ][x_, d_]


(***************************************************************************)
(* InputParameters, OutputParameters                                       *)
(***************************************************************************)
InputParameters ==
    [squareSideLength   : Float,
     baseCutBackLength  : Float,
     angle_ABC          : Float,
     frameCrossSection  : GLKVector2,
     frameWallThickness : Float,
     metalDensity       : Float,
     shoulderHeight     : Float,
     mirrorBoltSpacing  : Float,
     unit_cost          : [frameMetal : Float, mirror : Float, mirrorBolt : Float,
                           frameThroughHoleDrill : Float, frameThroughHoleTap : Float]]

OutputParameters ==
    [edge_length  : [OB : Float, BA : Float, OA : Float, AC : Float],
     vertex_angle : [angle_OAB : Float, angle_AOB : Float, angle_ABO : Float,
                     angle_OCB : Float, angle_COB : Float, angle_CBO : Float,
                     angle_ABC : Float, angle_BAC : Float, angle_BCA : Float,
                     angle_AOC : Float, angle_OAC : Float, angle_OCA : Float],
     vertex_coord : [A0 : GLKVector3, C0 : GLKVector3, B0 : GLKVector3, O : GLKVector3,
                     A1 : GLKVector3, B1 : GLKVector3, C1 : GLKVector3],
     overall_structure : [footprint : GLKVector2,
                          footprint_area : Float, footprint_aspect_ratio : Float,
                          height : Float, triangle_area : Float,
                          walkway_top_angle : Float, walkway_base_width : Float,
                          walkway_shoulder_width : Float],
     dihedral_angle : [angle_BOA_BOC : Float, angle_BOA_ABC : Float],
     frame  : [perimeter_length : Float, reinforce_length : Float, total_length : Float,
               metal_volume : Float, metal_mass : Float, metal_cost : Float,
               drill_count : Float, drill_cost : Float, tap_count : Float, tap_cost : Float],
     mirror : [surface_area : Float, cost : Float, bolt_count : Float, bolt_cost : Float],
     wind   : [total_surface_area_XY : Float, total_surface_area_YZ : Float],
     total  : [mass : Float, cost : Float]]

getDefaultInputParameters ==
    [squareSideLength   |-> FromInt(16),
     baseCutBackLength  |-> FromInt(2),
     angle_ABC          |-> GLKMathDegreesToRadians(FromInt(110)),
     frameCrossSection  |-> GLKVector2Make(FRat(75, 100), FRat(15, 10)),
     frameWallThickness |-> FRat(1, 16),
     metalDensity       |-> FRat(289, 1000),
     shoulderHeight     |-> FromInt(5),
     mirrorBoltSpacing  |-> FromInt(2),
     unit_cost          |-> [frameMetal            |-> FRat(44, 10),
                             mirror                |-> FDiv(FromInt(220), FMul(FromInt(8), FromInt(4))),
                             mirrorBolt            |-> FDiv(FRat(367, 100), FromInt(10)),
                             frameThroughHoleDrill |-> FRat(695, 160),
                             frameThroughHoleTap   |-> FRat(480, 320)]]

ZeroVec3 == GLKVector3Make(Zero, Zero, Zero)

\* memset(op, 0, sizeof(*op))
ZeroOutput ==
    [edge_length  |-> [OB |-> Zero, BA |-> Zero, OA |-> Zero, AC |-> Zero],
     vertex_angle |-> [angle_OAB |-> Zero, angle_AOB |-> Zero, angle_ABO |-> Zero,
                       angle_OCB |-> Zero, angle_COB |-> Zero, angle_CBO |-> Zero,
                       angle_ABC |-> Zero, angle_BAC |-> Zero, angle_BCA |-> Zero,
                       angle_AOC |-> Zero, angle_OAC |-> Zero, angle_OCA |-> Zero],
     vertex_coord |-> [A0 |-> ZeroVec3, C0 |-> ZeroVec3, B0 |-> ZeroVec3, O |-> ZeroVec3,
                       A1 |-> ZeroVec3, B1 |-> ZeroVec3, C1 |-> ZeroVec3],
     overall_structure |-> [footprint |-> GLKVector2Make(Zero, Zero),
                            footprint_area |-> Zero, footprint_aspect_ratio |-> Zero,
                            height |-> Zero, triangle_area |-> Zero,
                            walkway_top_angle |-> Zero, walkway_base_width |-> Zero,
                            walkway_shoulder_width |-> Zero],
     dihedral_angle |-> [angle_BOA_BOC |-> Zero, angle_BOA_ABC |-> Zero],
     frame  |-> [perimeter_length |-> Zero, reinforce_length |-> Zero, total_length |-> Zero,
                 metal_volume |-> Zero, metal_mass |-> Zero, metal_cost |-> Zero,
                 drill_count |-> Zero, drill_cost |-> Zero, tap_count |-> Zero, tap_cost |-> Zero],
     mirror |-> [surface_area |-> Zero, cost |-> Zero, bolt_count |-> Zero, bolt_cost |-> Zero],
     wind   |-> [total_surface_area_XY |-> Zero, total_surface_area_YZ |-> Zero],
     total  |-> [mass |-> Zero, cost |-> Zero]]

(***************************************************************************)
(* BM11Model::evaluate, one operator per block of the function.  Each      *)
(* takes the output structure as the block finds it and the input          *)
(* parameters, and gives the structure as the block leaves it.             *)
(***************************************************************************)
\* evaluate without its memset
ClearOutput_Skipped(op) == op

ClearOutput(op) == ZeroOutput

EdgeLengths(op, ip_) ==
    [ip \in InputParameters |->
        LET s  == ip.squareSideLength
            c  == ip.baseCutBackLength
            BA == FSub(s, c)
        IN  [op EXCEPT !.edge_length =
                [OB |-> sqrtf(FAdd(FMul(s, s), FMul(c, c))),
                 BA |-> BA,
                 OA |-> sqrtf(FMul(FMul(Two, s), s)),
                 AC |-> FMul(FMul(Two, BA), sin(FMul(ip.angle_ABC, Half)))]]
    ][ip_]

\* angle_CBO copied from angle_AOB instead of angle_ABO
AnglesFrom_WrongCopy(OAB_, AOB_, ABC_, AOC_) ==
    [OAB \in Float, AOB \in Float, ABC \in Float, AOC \in Float |->
        LET ABO == FSub(FSub(PI, OAB), AOB)
            BAC == FMul(FSub(PI, ABC), Half)
            OAC == FMul(FSub(PI, AOC), Half)
        IN  [angle_OAB |-> OAB, angle_AOB |-> AOB, angle_ABO |-> ABO,
             angle_OCB |-> OAB, angle_COB |-> AOB, angle_CBO |-> AOB,
             angle_ABC |-> ABC, angle_BAC |-> BAC, angle_BCA |-> BAC,
             angle_AOC |-> AOC, angle_OAC |-> OAC, angle_OCA |-> OAC]
    ][OAB_, AOB_, ABC_, AOC_]

\* the angles that follow from the two cosine-law angles of OBA, the given
\* angle_ABC and the apex angle of AOC
AnglesFrom(OAB_, AOB_, ABC_, AOC_) ==
    [OAB \in Float, AOB \in Float, ABC \in Float, AOC \in Float |->
        LET ABO == FSub(FSub(PI, OAB), AOB)
            BAC == FMul(FSub(PI, ABC), Half)
            OAC == FMul(FSub(PI, AOC), Half)
        IN  [angle_OAB |-> OAB, angle_AOB |-> AOB, angle_ABO |-> ABO,
             angle_OCB |-> OAB, angle_COB |-> AOB, angle_CBO |-> ABO,
             angle_ABC |-> ABC, angle_BAC |-> BAC, angle_BCA |-> BAC,
             angle_AOC |-> AOC, angle_OAC |-> OAC, angle_OCA |-> OAC]
    ][OAB_, AOB_, ABC_, AOC_]

VertexAngles(op_, ip) ==
    [op \in OutputParameters |->
        LET el == op.edge_length
        IN  [op EXCEPT !.vertex_angle =
                AnglesFrom(acosf(FDiv(FSub(FAdd(sq(el.OA), sq(el.BA)), sq(el.OB)),
                                      FMul(FMul(Two, el.OA), el.BA))),
                           acosf(FDiv(FSub(FAdd(sq(el.OA), sq(el.OB)), sq(el.BA)),
                                      FMul(FMul(Two, el.OA), el.OB))),
                           ip.angle_ABC,
                           FMul(Two, asin(FDiv(el.AC, FMul(Two, el.OA)))))]
    ][op_]

epsilon == FDiv(One, FromInt(1000))

Sin3(a, b, c) == FMul(FMul(sin(a), sin(b)), sin(c))

\* fabsf(lhs - rhs) > epsilon
Mismatch(lhs, rhs) == FGt(fabsf(FSub(lhs, rhs)), epsilon)

Fails_O_ABC(va_) ==
    [va \in [DOMAIN ZeroOutput.vertex_angle -> Float] |->
        Mismatch(Sin3(va.angle_OAC, va.angle_OCB, va.angle_ABO),
                 Sin3(va.angle_OCA, va.angle_CBO, va.angle_OAB))
    ][va_]
Fails_A_OBC(va_) ==
    [va \in [DOMAIN ZeroOutput.vertex_angle -> Float] |->
        Mismatch(Sin3(va.angle_AOC, va.angle_BCA, va.angle_ABO),
                 Sin3(va.angle_OCA, va.angle_ABC, va.angle_AOB))
    ][va_]
Fails_B_AOC(va_) ==
    [va \in [DOMAIN ZeroOutput.vertex_angle -> Float] |->
        Mismatch(Sin3(va.angle_BAC, va.angle_OCB, va.angle_AOB),
                 Sin3(va.angle_BCA, va.angle_COB, va.angle_OAB))
    ][va_]
Fails_C_ABO(va_) ==
    [va \in [DOMAIN ZeroOutput.vertex_angle -> Float] |->
        Mismatch(Sin3(va.angle_OAC, va.angle_COB, va.angle_ABC),
                 Sin3(va.angle_AOC, va.angle_CBO, va.angle_BAC))
    ][va_]

\* the four early returns of the validation block
InvalidTetrahedron(op_) ==
    [op \in OutputParameters |->
        \/ Fails_O_ABC(op.vertex_angle)
        \/ Fails_A_OBC(op.vertex_angle)
        \/ Fails_B_AOC(op.vertex_angle)
        \/ Fails_C_ABO(op.vertex_angle)
    ][op_]

PlaceVertices(op_) ==
    [op \in OutputParameters |->
        LET el        == op.edge_length
            length_AM == FMul(el.AC, Half)
            B0z       == sqrtf(FSub(sq(el.BA), sq(length_AM)))
            Oz        == FDiv(FSub(FAdd(FSub(sq(el.OB), sq(el.OA)), sq(length_AM)), sq(B0z)),
                              FMul(FNeg(Two), B0z))
            Oy        == sqrtf(FSub(FSub(sq(el.OA), sq(length_AM)), sq(Oz)))
        IN  [op EXCEPT !.vertex_coord.A0 = GLKVector3Make(FNeg(length_AM), Zero, Zero),
                       !.vertex_coord.C0 = GLKVector3Make(length_AM, Zero, Zero),
                       !.vertex_coord.B0 = GLKVector3Make(Zero, Zero, B0z),
                       !.vertex_coord.O  = GLKVector3Make(Zero, Oy, Oz)]
    ][op_]

TranslateVertices(op_) ==
    [op \in OutputParameters |->
        LET Oz == op.vertex_coord.O.z
        IN  [op EXCEPT !.vertex_coord.A0.z = FSub(@, Oz),
                       !.vertex_coord.B0.z = FSub(@, Oz),
                       !.vertex_coord.C0.z = FSub(@, Oz),
                       !.vertex_coord.O.z  = Zero]
    ][op_]

NegateZ == GLKVector3Make(One, One, FNeg(One))

MirrorVertices(op_) ==
    [op \in OutputParameters |->
        [op EXCEPT !.vertex_coord.A1 = GLKVector3Multiply(op.vertex_coord.A0, NegateZ),
                   !.vertex_coord.B1 = GLKVector3Multiply(op.vertex_coord.B0, NegateZ),
                   !.vertex_coord.C1 = GLKVector3Multiply(op.vertex_coord.C0, NegateZ)]
    ][op_]

\* the shoulder width taken at mirrorBoltSpacing instead of shoulderHeight
OverallStructure_BoltSpacing(op_, ip) ==
    [op \in OutputParameters |->
        LET vc == op.vertex_coord
            fp == GLKVector2Make(FSub(vc.C0.x, vc.A0.x), FSub(vc.A1.z, vc.A0.z))
        IN  [op EXCEPT !.overall_structure =
                [footprint              |-> fp,
                 footprint_area         |-> FMul(fp.x, fp.y),
                 footprint_aspect_ratio |-> FDiv(fp.x, fp.y),
                 height                 |-> vc.O.y,
                 triangle_area          |->
                     FMul(GLKVector3Length(GLKVector3CrossProduct(GLKVector3Subtract(vc.O, vc.B0),
                                                                  GLKVector3Subtract(vc.A0, vc.B0))),
                          Half),
                 walkway_top_angle      |-> FMul(atanf(FDiv(vc.B1.z, vc.O.y)), Two),
                 walkway_base_width     |-> FSub(vc.B1.z, vc.B0.z),
                 walkway_shoulder_width |->
                     FDiv(FMul(FMul(FSub(vc.O.y, ip.mirrorBoltSpacing), vc.B1.z), Two), vc.O.y)]]
    ][op_]

OverallStructure(op_, ip) ==
    [op \in OutputParameters |->
        LET vc == op.vertex_coord
            fp == GLKVector2Make(FSub(vc.C0.x, vc.A0.x), FSub(vc.A1.z, vc.A0.z))
        IN  [op EXCEPT !.overall_structure =
                [footprint              |-> fp,
                 footprint_area         |-> FMul(fp.x, fp.y),
                 footprint_aspect_ratio |-> FDiv(fp.x, fp.y),
                 height                 |-> vc.O.y,
                 triangle_area          |->
                     FMul(GLKVector3Length(GLKVector3CrossProduct(GLKVector3Subtract(vc.O, vc.B0),
                                                                  GLKVector3Subtract(vc.A0, vc.B0))),
                          Half),
                 walkway_top_angle      |-> FMul(atanf(FDiv(vc.B1.z, vc.O.y)), Two),
                 walkway_base_width     |-> FSub(vc.B1.z, vc.B0.z),
                 walkway_shoulder_width |->
                     FDiv(FMul(FMul(FSub(vc.O.y, ip.shoulderHeight), vc.B1.z), Two), vc.O.y)]]
    ][op_]

AnglesBetween(norm_BOA_, norm_BOC, norm_ABC) ==
    [norm_BOA \in GLKVector3 |->
        [angle_BOA_BOC |-> acosf(GLKVector3DotProduct(norm_BOA, norm_BOC)),
         angle_BOA_ABC |-> acosf(GLKVector3DotProduct(norm_BOA, norm_ABC))]
    ][norm_BOA_]

DihedralAngles(op_) ==
    [op \in OutputParameters |->
        LET vc == op.vertex_coord
            BO == GLKVector3Subtract(vc.B0, vc.O)
            BA == GLKVector3Subtract(vc.B0, vc.A0)
            BC == GLKVector3Subtract(vc.B0, vc.C0)
        IN  [op EXCEPT !.dihedral_angle =
                AnglesBetween(GLKVector3Normalize(GLKVector3CrossProduct(BO, BA)),
                              GLKVector3Normalize(GLKVector3CrossProduct(BO, BC)),
                              GLKVector3Make(Zero, One, Zero))]
    ][op_]

\* the frame fields that follow from the lengths and the metal cross section
FrameOfLength(perimeter_length_, reinforce_length_, total_length_, xsection_metal_area, ip_) ==
    [perimeter_length \in Float, reinforce_length \in Float, total_length \in Float, ip \in InputParameters |->
        LET metal_volume == FMul(xsection_metal_area, FMul(total_length, FromInt(12)))
            drill_count  == FDiv(total_length, ip.mirrorBoltSpacing)
            tap_count    == FMul(drill_count, Two)
        IN  [perimeter_length |-> perimeter_length,
             reinforce_length |-> reinforce_length,
             total_length     |-> total_length,
             metal_volume     |-> metal_volume,
             metal_mass       |-> FMul(metal_volume, ip.metalDensity),
             metal_cost       |-> FMul(total_length, ip.unit_cost.frameMetal),
             drill_count      |-> drill_count,
             drill_cost       |-> FMul(drill_count, ip.unit_cost.frameThroughHoleDrill),
             tap_count        |-> tap_count,
             tap_cost         |-> FMul(tap_count, ip.unit_cost.frameThroughHoleTap)]
    ][perimeter_length_, reinforce_length_, total_length_, ip_]

FrameOfLengths(perimeter_length_, reinforce_length_, xsection_metal_area, ip) ==
    [perimeter_length \in Float, reinforce_length \in Float |->
        FrameOfLength(perimeter_length, reinforce_length,
                      FAdd(perimeter_length, reinforce_length), xsection_metal_area, ip)
    ][perimeter_length_, reinforce_length_]

XSectionMetalArea(ip_) ==
    [ip \in InputParameters |->
        LET xsection_area == FMul(ip.frameCrossSection.x, ip.frameCrossSection.y)
            xsection_inner_dim ==
                GLKVector2Make(FSub(ip.frameCrossSection.x, FMul(ip.frameWallThickness, Two)),
                               FSub(ip.frameCrossSection.y, FMul(ip.frameWallThickness, Two)))
            xsection_inner_area == FMul(xsection_inner_dim.x, xsection_inner_dim.y)
        IN  FSub(xsection_area, xsection_inner_area)
    ][ip_]

FrameInfo(op_, ip_) ==
    [op \in OutputParameters, ip \in InputParameters |->
        LET el   == op.edge_length
            Four == FromInt(4)
        IN  [op EXCEPT !.frame =
                FrameOfLengths(
                    FAdd(FAdd(FMul(el.BA, Four), FMul(el.OA, Four)), FMul(el.OB, Four)),
                    FAdd(FMul(FMul(el.BA, FRat(16, 10)), Four),
                         op.overall_structure.walkway_base_width),
                    XSectionMetalArea(ip), ip)]
    ][op_, ip_]

MirrorAssembly(op_, ip_) ==
    [op \in OutputParameters, ip \in InputParameters |->
        LET surface_area == FMul(op.overall_structure.triangle_area, FromInt(8))
            bolt_count   == op.frame.tap_count
        IN  [op EXCEPT !.mirror =
                [surface_area |-> surface_area,
                 cost         |-> FMul(surface_area, ip.unit_cost.mirror),
                 bolt_count   |-> bolt_count,
                 bolt_cost    |-> FMul(bolt_count, ip.unit_cost.mirrorBolt)]]
    ][op_, ip_]

\* twice the area of triangle OBA after its vertices are multiplied by mask
ProjectedArea(vc_, mask_) ==
    [vc \in [DOMAIN ZeroOutput.vertex_coord -> GLKVector3], mask \in GLKVector3 |->
        LET Ap == GLKVector3Multiply(vc.A0, mask)
            Bp == GLKVector3Multiply(vc.B0, mask)
            Op == GLKVector3Multiply(vc.O, mask)
            triangle_surface_area ==
                FMul(GLKVector3Length(GLKVector3CrossProduct(GLKVector3Subtract(Bp, Ap),
                                                             GLKVector3Subtract(Bp, Op))),
                     Half)
        IN  FMul(triangle_surface_area, Two)
    ][vc_, mask_]

WindAreas(op_) ==
    [op \in OutputParameters |->
        [op EXCEPT !.wind =
            [total_surface_area_XY |-> ProjectedArea(op.vertex_coord, GLKVector3Make(One, One, Zero)),
             total_surface_area_YZ |-> ProjectedArea(op.vertex_coord, GLKVector3Make(Zero, One, One))]]
    ][op_]

\* the total cost without the mirror bolts
Totals_NoBolts(op_) ==
    [op \in OutputParameters |->
        [op EXCEPT !.total =
            [mass |-> op.frame.metal_mass,
             cost |-> FAdd(FAdd(FAdd(op.frame.metal_cost, op.frame.drill_cost),
                                op.frame.tap_cost),
                           op.mirror.cost)]]
    ][op_]

Totals(op_) ==
    [op \in OutputParameters |->
        [op EXCEPT !.total =
            [mass |-> op.frame.metal_mass,
             cost |-> FAdd(FAdd(FAdd(FAdd(op.frame.metal_cost, op.frame.drill_cost),
                                     op.frame.tap_cost),
                                op.mirror.cost),
                           op.mirror.bolt_cost)]]
    ][op_]

\* The blocks before the validation, and those after it.
Solve(op, ip_) ==
    [ip \in InputParameters |->
        VertexAngles(EdgeLengths(op, ip), ip)
    ][ip_]

SolveAngles(op, ip) == Solve(ClearOutput(op), ip)

\* the second tetrahedron derived before the translation
Coordinates_MirrorFirst(op) == TranslateVertices(MirrorVertices(PlaceVertices(op)))

Coordinates(op) == MirrorVertices(TranslateVertices(PlaceVertices(op)))

AfterCoordinates(op, ip_) ==
    [ip \in InputParameters |->
        Totals(WindAreas(MirrorAssembly(FrameInfo(DihedralAngles(
            OverallStructure(op, ip)), ip), ip)))
    ][ip_]

Derive(op, ip) == AfterCoordinates(Coordinates(op), ip)

\* bool BM11Model::evaluate(void): the structure it leaves in _outputParams
\* and the value it returns (true: invalid tetrahedron).
Validated(checked_, ip) ==
    [checked \in OutputParameters |->
        IF InvalidTetrahedron(checked)
        THEN [out |-> checked, ret |-> TRUE]
        ELSE [out |-> Derive(checked, ip), ret |-> FALSE]
    ][checked_]

evaluate(op, ip_) ==
    [ip \in InputParameters |->
        Validated(SolveAngles(op, ip), ip)
    ][ip_]


(***************************************************************************)
(* class BM11Model                                                         *)
(***************************************************************************)
BM11Model ==
    [_inputParams : InputParameters, _outputParams : OutputParameters, _is_dirty : BOOLEAN]

Self == [_inputParams |-> _inputParams, _outputParams |-> _outputParams,
         _is_dirty |-> _is_dirty]

\* the assignment without the dirty mark
setInputParameters_NotDirty(self, params) == [self EXCEPT !._inputParams = params]

setInputParameters(self, params) ==
    [self EXCEPT !._inputParams = params, !._is_dirty = TRUE]

\* The object as the call leaves it and the value handed to the caller; ran
\* and err tell whether evaluate ran and whether it printed
\* "ERROR: Invalid tetrahedron" (its return value, which the call drops).
Evaluated(self_, r_) ==
    [self \in BM11Model, r \in [out : OutputParameters, ret : BOOLEAN] |->
        [self  |-> [self EXCEPT !._outputParams = r.out, !._is_dirty = FALSE],
         value |-> r.out, ran |-> TRUE, err |-> r.ret]
    ][self_, r_]

getOutputParameters(self_) ==
    [self \in BM11Model |->
        IF self._is_dirty
        THEN Evaluated(self, evaluate(self._outputParams, self._inputParams))
        ELSE [self |-> self, value |-> self._outputParams, ran |-> FALSE, err |-> FALSE]
    ][self_]

(***************************************************************************)
(* A client calling the two public operations in any order.                *)
(***************************************************************************)
MaxCut  == 3
MaxGets == 2

Sides == {FromInt(2), FromInt(16)}
Cuts  == {FromInt(c) : c \in 2..MaxCut}

\* squareSideLength 16 with baseCutBackLength 2 is the default; a cut-back
\* equal to the side gives BA = 0, a larger one a negative BA.
Inputs ==
    {[getDefaultInputParameters EXCEPT !.squareSideLength = s, !.baseCutBackLength = c] :
        s \in Sides, c \in Cuts}

\* _outputParams is not initialised by the constructor
StaleOutput ==
    [ZeroOutput EXCEPT !.vertex_coord.A1 = GLKVector3Make(One, One, One),
                       !.wind.total_surface_area_XY = One,
                       !.total.cost = One]
UninitOutputs == {ZeroOutput, StaleOutput}

\* the object as the constructor finds it: no member is initialised
UninitObjects ==
    {[_inputParams |-> p, _outputParams |-> o, _is_dirty |-> d] :
        p \in Inputs, o \in UninitOutputs, d \in BOOLEAN}

\* BM11Model::BM11Model
Constructed ==
    \E raw \in UninitObjects :
        LET self == setInputParameters(raw, getDefaultInputParameters)
        IN  /\ _inputParams = self._inputParams
            /\ _outputParams = self._outputParams
            /\ _is_dirty = self._is_dirty

HistoryInit ==
    /\ lastCall = [name |-> "ctor", pending |-> FALSE, ran |-> FALSE, err |-> FALSE,
                   result |-> <<>>]
    /\ changed = TRUE
    /\ evals = 0
    /\ gets = 0
    /\ failed = FALSE
    /\ memo = <<>>
    /\ reEval = FALSE

ProgramOff ==
    /\ mainpc = "off"
    /\ output_params = <<>>
    /\ mph = Zero
    /\ stdout = <<>>
    /\ sweepEnabled = FALSE
    /\ input_params = getDefaultInputParameters
    /\ printParams = <<>>

Callers == {1, 2}

CallersOff ==
    /\ pc = [t \in Callers |-> "off"]
    /\ received = [t \in Callers |-> <<>>]
    /\ calls = [t \in Callers |-> 0]

Init == Constructed /\ HistoryInit /\ ProgramOff /\ CallersOff

Becomes(self) ==
    /\ _inputParams' = self._inputParams
    /\ _outputParams' = self._outputParams
    /\ _is_dirty' = self._is_dirty

SetInputParameters(params) ==
        /\ Becomes(setInputParameters(Self, params))
        /\ lastCall' = [name |-> "set", pending |-> changed, ran |-> FALSE, err |-> FALSE,
                        result |-> <<>>]
        /\ changed' = TRUE
        /\ evals' = 0
        /\ gets' = 0
        /\ failed' = FALSE
        /\ UNCHANGED <<memo, reEval, program, callers>>

Got(r) ==
           /\ Becomes(r.self)
           /\ lastCall' = [name |-> "get", pending |-> changed, ran |-> r.ran, err |-> r.err,
                           result |-> <<r.value>>]
           /\ changed' = FALSE
           /\ evals' = IF r.ran THEN (IF evals < 2 THEN evals + 1 ELSE 2) ELSE evals
           /\ gets' = gets + 1
           /\ failed' = IF r.ran THEN r.err ELSE failed
           /\ \E keep \in BOOLEAN :
                 memo' = IF r.ran /\ keep /\ memo = <<>>
                         THEN <<_inputParams, r.value>> ELSE memo
           /\ reEval' = (reEval \/ (/\ r.ran
                                    /\ memo # <<>>
                                    /\ memo[1] = _inputParams
                                    /\ _outputParams # memo[2]))
           /\ UNCHANGED <<program, callers>>

GetOutputParameters ==
    /\ gets < MaxGets
    /\ \E r \in {getOutputParameters(Self)} : Got(r)

Next ==
    \/ \E params \in Inputs : SetInputParameters(params)
    \/ GetOutputParameters

Spec == Init /\ [][Next]_vars


(***************************************************************************)
(* Properties of the client specification                                  *)
(***************************************************************************)
OutputFields(op) ==
    <<op.vertex_coord, op.overall_structure, op.dihedral_angle, op.frame, op.mirror,
      op.wind, op.total>>

HasNaNAngle(op) == \E f \in DOMAIN op.vertex_angle : IsNaN(op.vertex_angle[f])

\* C1: getOutputParameters runs evaluate exactly when an input assignment (or
\* the constructor) happened since the previous getOutputParameters, and
\* otherwise returns the stored output as it is; between two input
\* assignments evaluate runs at most once.
C1_LazyRecompute ==
    /\ lastCall.name = "get" => /\ lastCall.ran <=> lastCall.pending
                                /\ lastCall.result = <<_outputParams>>
                                /\ ~_is_dirty
    /\ evals <= 1
    /\ gets >= 1 => evals = 1

C1_Witness ==
    /\ lastCall.name = "get" /\ ~lastCall.ran /\ ~lastCall.pending
    /\ gets = 2 /\ evals = 1

\* C2: when the law-of-sines check fails, the caller of getOutputParameters
\* receives no output.
C2_FailureSurfaced == lastCall.err => lastCall.result = <<>>

\* C3: an evaluation that produced a NaN angle reports the failure, and no
\* NaN reaches the fields computed after the validation.
C3_NaNRejected ==
    (lastCall.ran /\ HasNaNAngle(_outputParams)) =>
        /\ lastCall.err
        /\ OutputFields(_outputParams) = OutputFields(ZeroOutput)

\* C5: an evaluation of inputs that were evaluated before leaves the same
\* output structure, whatever the structure held when it started.
C5_Idempotent ==
    (lastCall.ran /\ memo # <<>> /\ memo[1] = _inputParams) => _outputParams = memo[2]

C5_Witness ==
    /\ lastCall.ran /\ memo # <<>> /\ memo[1] = _inputParams /\ reEval
    /\ failed

\* The structure in _outputParams is the result of an evaluation that
\* returned false.
Succeeded == ~_is_dirty /\ ~failed

Mirrored(v) == GLKVector3Make(v.x, v.y, FNeg(v.z))

\* C6: after a successful evaluation A1, B1 and C1 are the translated A0, B0
\* and C0 with z negated.
C6_Symmetry ==
    Succeeded =>
        LET vc == _outputParams.vertex_coord
        IN  /\ vc.A1 = Mirrored(vc.A0)
            /\ vc.B1 = Mirrored(vc.B0)
            /\ vc.C1 = Mirrored(vc.C0)
            /\ vc.O.z = Zero

C6_Witness ==
    /\ Succeeded
    /\ Positive(FNeg(_outputParams.vertex_coord.A0.z))
    /\ Positive(_outputParams.vertex_coord.A1.z)
    /\ Positive(FNeg(_outputParams.vertex_coord.B0.z))

\* C7: while inputs whose evaluation failed are in place, every
\* getOutputParameters call reports the failure.
C7_FailureRepeats == (lastCall.name = "get" /\ failed) => lastCall.err

\* C9: after a successful evaluation the totals are the sums of the frame
\* and mirror fields, and the counts follow from total_length.
C9_Totals ==
    Succeeded =>
        LET fr == _outputParams.frame
            mi == _outputParams.mirror
            to == _outputParams.total
        IN  /\ to.cost = FAdd(FAdd(FAdd(FAdd(fr.metal_cost, fr.drill_cost), fr.tap_cost),
                                   mi.cost), mi.bolt_cost)
            /\ to.mass = fr.metal_mass
            /\ fr.tap_count = FMul(Two, fr.drill_count)
            /\ mi.bolt_count = fr.tap_count
            /\ fr.drill_count = FDiv(fr.total_length, _inputParams.mirrorBoltSpacing)
            /\ mi.bolt_count = FDiv(FMul(fr.total_length, Two), _inputParams.mirrorBoltSpacing)

C9_Witness ==
    /\ Succeeded
    /\ Positive(_outputParams.total.cost)
    /\ Positive(_outputParams.mirror.bolt_cost)
    /\ Positive(_outputParams.frame.drill_count)

\* The blocks after the validation have not run: vertex_coord,
\* overall_structure, dihedral_angle, frame, mirror, wind and total hold the
\* zeros written by the memset.
HaltedAtValidation(op) == OutputFields(op) = OutputFields(ZeroOutput)

\* A structure of which some blocks were computed and the others were not.
PartlyComputed(op) == HaltedAtValidation(op) /\ op # ZeroOutput

\* C11: when evaluate fails, no block after the validation has run, so the
\* fields from vertex_coord to total hold the zeros of the memset, and the
\* caller of getOutputParameters is not handed a partly computed structure.
C11_NoPartialOutput ==
    (lastCall.name = "get" /\ failed) =>
        /\ HaltedAtValidation(_outputParams)
        /\ \A op \in {lastCall.result[i] : i \in DOMAIN lastCall.result} :
              ~PartlyComputed(op)

(***************************************************************************)
(* main and printOutputParameters.  Of the report only the lines from      *)
(* "   XY plane:" to the end of the YZ table are kept in stdout.  The      *)
(* condition of main's second block is a literal of the source, (0) as     *)
(* committed; sweepEnabled stands for it, so that the block is modelled    *)
(* both compiled out and compiled in.                                      *)
(***************************************************************************)
Line(fmt, args) == [fmt |-> fmt, args |-> args]

\* float pressure, coeff_drag, force of the loop bodies
WindForce(area, speed) ==
    FMul(FMul(area, FMul(sq(MPH_To_FTSec(speed)), FRat(256, 100000))), One)

WindRow(area, speed) ==
    Line("      Side force at %f MPH = %.0f lbs",
         <<printf_f(speed, 6), printf_f(WindForce(area, speed), 0)>>)

AreaLine(area) == Line("      Total surface area = %.3f ft^2", <<printf_f(area, 3)>>)

\* the sweep that steps by a whole foot
SweepNext_WholeFoot(squareSideLength) == FSub(squareSideLength, One)

\* input_params.squareSideLength -= 0.5f
SweepNext(squareSideLength) == FSub(squareSideLength, Half)

MainInit ==
    /\ Constructed /\ HistoryInit /\ CallersOff
    /\ mainpc = "block1"
    /\ output_params = <<>>
    /\ mph = Zero
    /\ stdout = <<>>
    /\ sweepEnabled \in BOOLEAN
    /\ input_params = getDefaultInputParameters
    /\ printParams = <<>>

Main_Returned(r) ==
    /\ Becomes(r.self)
    /\ output_params' = <<r.value>>

\* BM11Model::OutputParameters output_params = model.getOutputParameters();
Main_Get ==
    /\ mainpc = "block1"
    /\ \E r \in {getOutputParameters(Self)} : Main_Returned(r)
    /\ mainpc' = "print"
    /\ UNCHANGED <<mph, stdout, sweepEnabled, input_params, printParams, history, callers>>

\* BM11Model::printOutputParameters(output_params), to the first wind loop
Print_Begin ==
    /\ mainpc = "print"
    /\ printParams' = output_params
    /\ stdout' = stdout \o <<Line("   XY plane:", <<>>),
                             AreaLine(output_params[1].wind.total_surface_area_XY)>>
    /\ mph' = FromInt(5)
    /\ mainpc' = "wind_xy"
    /\ UNCHANGED <<object, output_params, sweepEnabled, input_params, history, callers>>

Wind_Row(at, area) ==
    /\ mainpc = at
    /\ FLe(mph, FromInt(100))
    /\ stdout' = Append(stdout, WindRow(area, mph))
    /\ mph' = FAdd(mph, FromInt(5))
    /\ UNCHANGED <<object, mainpc, output_params, sweepEnabled, input_params, printParams,
                   history, callers>>

Wind_XY_Row == mainpc = "wind_xy" /\ Wind_Row("wind_xy", printParams[1].wind.total_surface_area_XY)

Wind_XY_End ==
    /\ mainpc = "wind_xy"
    /\ ~FLe(mph, FromInt(100))
    /\ stdout' = stdout \o <<Line("   YZ plane:", <<>>),
                             AreaLine(printParams[1].wind.total_surface_area_YZ)>>
    /\ mph' = FromInt(5)
    /\ mainpc' = "wind_yz"
    /\ UNCHANGED <<object, output_params, sweepEnabled, input_params, printParams,
                   history, callers>>

Wind_YZ_Row == mainpc = "wind_yz" /\ Wind_Row("wind_yz", printParams[1].wind.total_surface_area_YZ)

Wind_YZ_End ==
    /\ mainpc = "wind_yz"
    /\ ~FLe(mph, FromInt(100))
    /\ mainpc' = "block2"
    /\ UNCHANGED <<object, output_params, mph, stdout, sweepEnabled, input_params, printParams,
                   history, callers>>

\* if ((0)): the block compiled out
Sweep_Off ==
    /\ mainpc = "block2"
    /\ ~sweepEnabled
    /\ mainpc' = "done"
    /\ UNCHANGED <<object, output_params, mph, stdout, sweepEnabled, input_params, printParams,
                   history, callers>>

Sweep_Begin ==
    /\ mainpc = "block2"
    /\ sweepEnabled
    /\ input_params' = [getDefaultInputParameters EXCEPT !.squareSideLength = FromInt(16)]
    /\ stdout' = Append(stdout, Line("squareSideLength, TotalCost", <<>>))
    /\ mainpc' = "sweep"
    /\ UNCHANGED <<object, output_params, mph, sweepEnabled, printParams, history, callers>>

\* input_params.squareSideLength >= 8.0f; model.setInputParameters(input_params);
Sweep_Set ==
    /\ mainpc = "sweep"
    /\ FGe(input_params.squareSideLength, FromInt(8))
    /\ Becomes(setInputParameters(Self, input_params))
    /\ mainpc' = "sweep_get"
    /\ UNCHANGED <<output_params, mph, stdout, sweepEnabled, input_params, printParams,
                   history, callers>>

Sweep_Get ==
    /\ mainpc = "sweep_get"
    /\ \E r \in {getOutputParameters(Self)} : Main_Returned(r)
    /\ mainpc' = "sweep_print"
    /\ UNCHANGED <<mph, stdout, sweepEnabled, input_params, printParams, history, callers>>

Sweep_Print ==
    /\ mainpc = "sweep_print"
    /\ stdout' = Append(stdout, Line("%.2f, %.2f",
                                     <<printf_f(input_params.squareSideLength, 2),
                                       printf_f(output_params[1].total.cost, 2)>>))
    /\ input_params' = [input_params EXCEPT
                            !.squareSideLength = SweepNext(input_params.squareSideLength)]
    /\ mainpc' = "sweep"
    /\ UNCHANGED <<object, output_params, mph, sweepEnabled, printParams, history, callers>>

Sweep_End ==
    /\ mainpc = "sweep"
    /\ ~FGe(input_params.squareSideLength, FromInt(8))
    /\ mainpc' = "done"
    /\ UNCHANGED <<object, output_params, mph, stdout, sweepEnabled, input_params, printParams,
                   history, callers>>

MainNext ==
    \/ Main_Get
    \/ Print_Begin
    \/ Wind_XY_Row
    \/ Wind_XY_End
    \/ Wind_YZ_Row
    \/ Wind_YZ_End
    \/ Sweep_Off
    \/ Sweep_Begin
    \/ Sweep_Set
    \/ Sweep_Get
    \/ Sweep_Print
    \/ Sweep_End

\* main is a single sequential process: it takes its next step whenever it has one
MainSpec == MainInit /\ [][MainNext]_vars /\ WF_vars(MainNext)

(***************************************************************************)
(* Properties of main                                                      *)
(***************************************************************************)
Decimal(whole, frac) == [neg |-> FALSE, whole |-> whole, frac |-> frac]

\* The row of speed 5 * n for a projected area: the force is
\* area x 0.00256 x (1.46667 x mph)^2 x 1.0, multiplied in the order of the source.
TableRow(area, n) ==
    Line("      Side force at %f MPH = %.0f lbs",
         <<Decimal(5 * n, 0),
           printf_f(FMul(FMul(area, FMul(sq(FMul(FromInt(5 * n), FRat(146667, 100000))),
                                         FRat(256, 100000))), One), 0)>>)

\* Line i of the wind tables: a header and an area line, then twenty rows, per plane.
TableLine(i, w) ==
    IF i = 1 THEN Line("   XY plane:", <<>>)
    ELSE IF i = 2 THEN AreaLine(w.total_surface_area_XY)
    ELSE IF i <= 22 THEN TableRow(w.total_surface_area_XY, i - 2)
    ELSE IF i = 23 THEN Line("   YZ plane:", <<>>)
    ELSE IF i = 24 THEN AreaLine(w.total_surface_area_YZ)
    ELSE TableRow(w.total_surface_area_YZ, i - 24)

Quadratic(area) ==
    /\ WindForce(area, Zero) = Zero
    /\ \A n \in 1..20 :
          WindForce(area, FromInt(10 * n)) = FMul(FromInt(4), WindForce(area, FromInt(5 * n)))

\* C10: the wind force is area x 0.00256 x (1.46667 x mph)^2 x 1.0, zero at
\* 0 mph and four times larger at twice the speed; the printed table has the
\* rows of 5, 10, ..., 100 mph for the XY plane and then the same for YZ.
C10_WindTable ==
    printParams # <<>> =>
        /\ \A i \in 1..Len(stdout) : i <= 44 => stdout[i] = TableLine(i, printParams[1].wind)
        /\ mainpc \notin {"wind_xy", "wind_yz"} => Len(stdout) >= 44
        /\ Quadratic(printParams[1].wind.total_surface_area_XY)
        /\ Quadratic(printParams[1].wind.total_surface_area_YZ)

C10_Witness ==
    /\ mainpc = "block2"
    /\ Len(stdout) = 44
    /\ stdout[22].args[1] = Decimal(100, 0)
    /\ stdout[44].args[2].whole > stdout[25].args[2].whole
    /\ stdout[25].args[2].whole > 0

\* The sweep's row k: squareSideLength 16.0 - 0.5 (k - 1) to two decimals, and
\* the total cost evaluated for the default inputs with that squareSideLength.
SweepInput(k) ==
    [getDefaultInputParameters EXCEPT !.squareSideLength = FRat(33 - k, 2)]

SweepExpected ==
    [k \in 1..17 |->
        Line("%.2f, %.2f",
             <<Decimal((33 - k) \div 2, IF (33 - k) % 2 = 1 THEN 50 ELSE 0),
               printf_f(evaluate(ZeroOutput, SweepInput(k)).out.total.cost, 2)>>)]

SweepLinesOk ==
    sweepEnabled =>
        /\ Len(stdout) <= 62
        /\ Len(stdout) >= 45 => stdout[45] = Line("squareSideLength, TotalCost", <<>>)
        /\ \A i \in 46..Len(stdout) : stdout[i] = SweepExpected[i - 45]
        /\ mainpc = "done" => Len(stdout) = 62

\* C8: the sweep terminates; it prints the rows of squareSideLength 16.0,
\* 15.5, ..., 8.0 in that order, 17 rows after the header, each with the
\* total cost evaluated for that row's squareSideLength.
C8_Sweep == []SweepLinesOk /\ <>(mainpc = "done")

C8_Witness ==
    /\ mainpc = "done" /\ sweepEnabled
    /\ Len(stdout) = 62
    /\ stdout[46].args[1] = Decimal(16, 0)
    /\ stdout[62].args[1] = Decimal(8, 0)
    /\ stdout[46].args[2].whole > stdout[62].args[2].whole

(***************************************************************************)
(* Two callers of getOutputParameters on one object, with no               *)
(* synchronisation (the class has none).  evaluate writes _outputParams in *)
(* place through op, so each of its blocks is a step other callers can     *)
(* interleave with; a block, the test of _is_dirty, its clearing and the   *)
(* copy made by the return statement are each taken as one step.  The      *)
(* callers start after the calls                                           *)
(*     BM11Model model; model.getOutputParameters();                       *)
(*     model.setInputParameters(p);                                        *)
(* so that the object holds the complete output of an earlier evaluation.  *)
(***************************************************************************)
MaxCalls == 1

StepInputs ==
    {[getDefaultInputParameters EXCEPT !.squareSideLength = s,
                                       !.baseCutBackLength = FromInt(3)] : s \in Sides}

StepObject(out, p) ==
    /\ _inputParams = p
    /\ _outputParams = out
    /\ _is_dirty = TRUE

StepInit ==
    /\ \E raw \in UninitObjects, p \in StepInputs :
          \E r \in {getOutputParameters(setInputParameters(raw, getDefaultInputParameters))} :
             StepObject(setInputParameters(r.self, p)._outputParams, p)
    /\ HistoryInit /\ ProgramOff
    /\ pc = [t \in Callers |-> "idle"]
    /\ received = [t \in Callers |-> <<>>]
    /\ calls = [t \in Callers |-> 0]

Goto(t, at) == pc' = [pc EXCEPT ![t] = at]

Writes(t, out, at) ==
    /\ _outputParams' = out
    /\ Goto(t, at)
    /\ UNCHANGED <<_inputParams, _is_dirty, received, calls, history, program>>

\* if (_is_dirty)
Call(t) ==
    /\ pc[t] = "idle"
    /\ calls[t] < MaxCalls
    /\ Goto(t, IF _is_dirty THEN "memset" ELSE "return")
    /\ UNCHANGED <<object, received, calls, history, program>>

Memset(t) ==
    /\ pc[t] = "memset"
    /\ Writes(t, ClearOutput(_outputParams), "solve")

SolveStep(t) ==
    /\ pc[t] = "solve"
    /\ \E out \in {Solve(_outputParams, _inputParams)} : Writes(t, out, "validate")

\* the four law-of-sines tests; evaluate returns true from the first that fails
ValidateStep(t) ==
    /\ pc[t] = "validate"
    /\ \E invalid \in {InvalidTetrahedron(_outputParams)} :
          Goto(t, IF invalid THEN "undirty" ELSE "coords")
    /\ UNCHANGED <<object, received, calls, history, program>>

CoordinatesStep(t) ==
    /\ pc[t] = "coords"
    /\ \E out \in {Coordinates(_outputParams)} : Writes(t, out, "derive")

DeriveStep(t) ==
    /\ pc[t] = "derive"
    /\ \E out \in {AfterCoordinates(_outputParams, _inputParams)} : Writes(t, out, "undirty")

\* _is_dirty = false;
Undirty(t) ==
    /\ pc[t] = "undirty"
    /\ _is_dirty' = FALSE
    /\ Goto(t, "return")
    /\ UNCHANGED <<_inputParams, _outputParams, received, calls, history, program>>

\* return _outputParams;
Return(t) ==
    /\ pc[t] = "return"
    /\ received' = [received EXCEPT ![t] = <<_outputParams>>]
    /\ calls' = [calls EXCEPT ![t] = @ + 1]
    /\ Goto(t, "idle")
    /\ UNCHANGED <<object, history, program>>

StepNext ==
    \E t \in Callers :
        \/ Call(t)
        \/ Memset(t)
        \/ SolveStep(t)
        \/ ValidateStep(t)
        \/ CoordinatesStep(t)
        \/ DeriveStep(t)
        \/ Undirty(t)
        \/ Return(t)

StepSpec == StepInit /\ [][StepNext]_vars

\* What an evaluation of given inputs leaves in _outputParams when nothing
\* interleaves with it.
WholeOutput ==
    [p \in StepInputs \cup {getDefaultInputParameters} |-> evaluate(ZeroOutput, p).out]

\* C4: a caller that reads the output while another is evaluating receives
\* the complete output of the previous evaluation or the complete output of
\* the evaluation of the inputs in place.
C4_WholeOutputSeen ==
    \A t \in Callers :
        received[t] # <<>> =>
            received[t][1] \in {WholeOutput[getDefaultInputParameters],
                                WholeOutput[_inputParams]}


(***************************************************************************)
(* A client that changes one group of inputs at a time: the frame cross    *)
(* section, the wall thickness, the metal density, the bolt spacing, the   *)
(* unit costs, the shoulder height or the cut-back, each away from         *)
(* getDefaultInputParameters.  memo keeps the inputs and the output of one *)
(* earlier evaluation, to be compared with the evaluation in place.        *)
(***************************************************************************)
VaryInputs ==
    {getDefaultInputParameters,
     [getDefaultInputParameters EXCEPT !.frameCrossSection = GLKVector2Make(One, Two)],
     [getDefaultInputParameters EXCEPT !.frameWallThickness = FRat(1, 8)],
     [getDefaultInputParameters EXCEPT !.metalDensity = FRat(1, 10)],
     [getDefaultInputParameters EXCEPT !.mirrorBoltSpacing = One],
     [getDefaultInputParameters EXCEPT !.unit_cost =
         [frameMetal |-> One, mirror |-> Two, mirrorBolt |-> Half,
          frameThroughHoleDrill |-> Two, frameThroughHoleTap |-> One]],
     [getDefaultInputParameters EXCEPT !.shoulderHeight = FromInt(6)],
     [getDefaultInputParameters EXCEPT !.baseCutBackLength = FromInt(3)]}

VaryNext ==
    \/ \E params \in VaryInputs : SetInputParameters(params)
    \/ GetOutputParameters

VarySpec == Init /\ [][VaryNext]_vars

\* the inputs read by the frame and mirror blocks only
CostInputs(ip) ==
    <<ip.frameCrossSection, ip.frameWallThickness, ip.metalDensity, ip.mirrorBoltSpacing,
      ip.unit_cost>>

\* the inputs that are left when those are taken away
ShapeInputs(ip) ==
    <<ip.squareSideLength, ip.baseCutBackLength, ip.angle_ABC, ip.shoulderHeight>>

ShapeFields(op) ==
    <<op.edge_length, op.vertex_angle, op.vertex_coord, op.overall_structure,
      op.dihedral_angle, op.wind>>

WindFace(op) == <<op.vertex_coord.O, op.vertex_coord.A0, op.vertex_coord.B0>>

\* _outputParams is the evaluation of _inputParams, and memo holds another
\* evaluation
TwoEvaluations == memo # <<>> /\ ~_is_dirty

\* C12: two evaluations whose inputs differ only in frameCrossSection,
\* frameWallThickness, metalDensity, mirrorBoltSpacing or unit_cost agree on
\* edge_length, vertex_angle, vertex_coord, overall_structure, dihedral_angle
\* and wind; and two evaluations that agree on O, A0 and B0 agree on wind,
\* whatever their frame and mirror fields are.
C12_CostInputsConfined ==
    TwoEvaluations =>
        /\ ShapeInputs(memo[1]) = ShapeInputs(_inputParams) =>
              ShapeFields(memo[2]) = ShapeFields(_outputParams)
        /\ WindFace(memo[2]) = WindFace(_outputParams) =>
              memo[2].wind = _outputParams.wind

C12_Witness ==
    /\ TwoEvaluations
    /\ ShapeInputs(memo[1]) = ShapeInputs(_inputParams)
    /\ CostInputs(memo[1]) # CostInputs(_inputParams)
    /\ memo[1].mirrorBoltSpacing # _inputParams.mirrorBoltSpacing
    /\ memo[2].frame # _outputParams.frame
    /\ memo[2].mirror # _outputParams.mirror
    /\ memo[2].total # _outputParams.total
    /\ Positive(_outputParams.wind.total_surface_area_XY)
    /\ Positive(_outputParams.overall_structure.walkway_shoulder_width)


(***************************************************************************)
(* A client whose inputs are the defaults, a cut-back larger than the      *)
(* side, a cut-back equal to the side, and a cut-back so little larger     *)
(* than the side that the law-of-sines products differ by the tolerance.   *)
(***************************************************************************)
AtTolerance ==
    [getDefaultInputParameters EXCEPT
        !.squareSideLength  = [m |-> 9877586, e |-> -20],
        !.baseCutBackLength = [m |-> 9888856, e |-> -20],
        !.angle_ABC         = [m |-> 8612584, e |-> -23]]

ToleranceInputs ==
    {getDefaultInputParameters,
     [getDefaultInputParameters EXCEPT !.squareSideLength = FromInt(2),
                                       !.baseCutBackLength = FromInt(3)],
     [getDefaultInputParameters EXCEPT !.squareSideLength = FromInt(2),
                                       !.baseCutBackLength = FromInt(2)],
     AtTolerance}

ToleranceNext ==
    \/ \E params \in ToleranceInputs : SetInputParameters(params)
    \/ GetOutputParameters

ToleranceSpec == Init /\ [][ToleranceNext]_vars

\* the five angles that are assigned from another angle
CopiedAngles(va) ==
    /\ va.angle_OCB = va.angle_OAB
    /\ va.angle_COB = va.angle_AOB
    /\ va.angle_CBO = va.angle_ABO
    /\ va.angle_BCA = va.angle_BAC
    /\ va.angle_OCA = va.angle_OAC

====
